---------------------------- MODULE Spec2Model ----------------------------
(***************************************************************************)
(* A model of incremental_dedup: the incremental cluster store             *)
(* (IncrementalClustering.add_to_cluster), the batch clustering            *)
(* (ClusteringOperations.cluster_items / analyze_clustering /              *)
(* clean_clusters), the borderline resolution                              *)
(* (CosineClusterer.cluster_process) and the snapshot diff                 *)
(* (DiffOperations.compare_clusters) and the merging of confirmed          *)
(* duplicates (CosineClusters._merge_dicts / merge_duplicates).            *)
(*                                                                         *)
(* Scores and thresholds are floats in the source; here they are integers  *)
(* in hundredths (0.89 is 89), which keeps every comparison of the source. *)
(* The similarity backend, the document store and the oracle are external  *)
(* collaborators: their answers are inputs drawn from bounded sets.        *)
(***************************************************************************)
EXTENDS Integers, Sequences, FiniteSets, TLC

VARIABLES
    \* --- incremental cluster store (IncrementalClustering)
    store,      \* the persisted cluster index: cluster id -> set of member ids
    call,       \* the add_to_cluster call in progress or just returned
    pc,         \* "idle" | "called" | "returned"
    \* --- batch clustering (ClusteringOperations)
    provider,           \* evaluate_similarity's answer for each id of the corpus
    threshold_list,     \* the thresholds given to analyze_clustering
    ti,                 \* index of the threshold of the current run
    pos,                \* 0: run not started; k: id_list[k] is next; past the end: to save
    clusters,           \* the cluster list of the current run
    similarity_cache,   \* self.similarity_cache
    outputs,            \* per finished run, the output written to clustering_<t>.json
    cleaned_outputs,    \* per finished run, the output written to cleaned_clusters_<t>.json
    \* --- snapshot diff (DiffOperations)
    data,               \* the loaded cluster files: file -> label -> member list
    diff_output,        \* what compare_clusters returned
    \* --- borderline resolution (CosineClusterer.cluster_process)
    similarity_doc,     \* the SimilarIDs document given to cluster_process
    cp_threshold,       \* CosineClusterer.threshold: embedding key -> ThresholdDoc
    next_item,          \* index of the next item of similar_id.items()
    cp_similar_ids,     \* cluster_process's list similar_ids so far
    cp_min,             \* cluster_process's local variable min
    asked,              \* the candidates sent to the oracle so far
    response,           \* the oracle's last reply
    cleaned_doc,        \* the document cluster_process returned
    \* --- merging of confirmed duplicates (CosineClusters)
    dicts,              \* the two dict objects given to _merge_dicts, as they are now
    merged_runs,        \* what each run of _merge_dicts on them returned
    records,            \* the record index: record id -> document (_source)
    merge_doc,          \* the cluster_dict given to merge_duplicates
    merge_out           \* what merge_duplicates did and returned

storeVars == <<store, call, pc>>
batchVars == <<provider, threshold_list, ti, pos, clusters, similarity_cache,
               outputs, cleaned_outputs>>
diffVars == <<data, diff_output>>
procVars == <<similarity_doc, cp_threshold, next_item, cp_similar_ids, cp_min, asked,
              response, cleaned_doc>>
mergeVars == <<dicts, merged_runs, records, merge_doc, merge_out>>
vars == <<storeVars, batchVars, diffVars, procVars, mergeVars>>

\* ------------------------------------------------------------------ bounds

\* Record ids known to the incremental store are 1..NumIds.
NumIds == 3
\* A pre-existing store holds at most MaxInitClusters clusters ...
MaxInitClusters == 2
\* ... whose ids are taken from 0..MaxInitId.
MaxInitId == 2

Ids == 1..NumIds

\* ------------------------------------------------------------- helpers

\* All orders (sequences without repetition) of the finite set S.
Perms(S) ==
    {f \in [1..Cardinality(S) -> S] : \A i, j \in 1..Cardinality(S) : i # j => f[i] # f[j]}

\* All functions from a subset of D to R (Python dicts with keys in D).
PartialFns(D, R) == UNION {[K -> R] : K \in SUBSET D}

SetMax(S) == CHOOSE m \in S : \A x \in S : x <= m

\* ------------------------------------------------- threshold configuration

\* Embedding keys: the two configured by default and one with no policy.
Keys == {"question.bge_search_vector", "question.e5_search_vector", "question.other_vector"}

\* IncrementalClustering.thresholds default (clustering.py:164-167).
thresholds ==
    [k \in {"question.bge_search_vector", "question.e5_search_vector"} |->
        IF k = "question.bge_search_vector" THEN [max |-> 89, min |-> 70]
                                            ELSE [max |-> 99, min |-> 88]]

\* The fallback max threshold of add_to_cluster (0.9).
DefaultMaxThreshold == 90

\* The max threshold with the highest configured max as the fallback.
MaxThresholdFallbackE5(key) ==
    IF key \in DOMAIN thresholds THEN thresholds[key].max
                                  ELSE thresholds["question.e5_search_vector"].max

\* max_threshold = self.thresholds.get(key, {}).get("max"), 0.9 when None.
MaxThreshold(key) ==
    IF key \in DOMAIN thresholds THEN thresholds[key].max ELSE DefaultMaxThreshold

\* ------------------------------------------------- similarity provider

\* Scores the backend may report to add_to_cluster: below every max
\* threshold, and on or above each of 89 / 90 / 99.
StoreScores == {85, 90, 99}

\* evaluate_similarity(item_id, key): None (no embedding vector), or the
\* mapping item_id -> {other id -> score}; the item itself is never a key.
NoSimilarity == [found |-> FALSE, scores |-> <<>>]

Similarities(item_id) ==
    {NoSimilarity} \cup
    {[found |-> TRUE, scores |-> s] : s \in PartialFns(Ids \ {item_id}, StoreScores)}

\* ------------------------------------------------- the document store

\* An index call that creates the document but never replaces one.
IndexIfAbsent(docs, doc_id, cluster_ids) ==
    [c \in DOMAIN docs \cup {doc_id} |-> IF c \in DOMAIN docs THEN docs[c] ELSE cluster_ids]

\* ElasticsearchClient.index: create or replace the document doc_id.
Index(docs, doc_id, cluster_ids) ==
    [c \in DOMAIN docs \cup {doc_id} |-> IF c = doc_id THEN cluster_ids ELSE docs[c]]

\* An update whose script sets cluster_ids to the one id.
UpdateSetMembers(docs, doc_id, id) ==
    [docs EXCEPT ![doc_id] = {id}]

\* ElasticsearchClient.update with the painless script of add_to_cluster:
\* add params.id to cluster_ids unless it is there.
Update(docs, doc_id, id) ==
    [docs EXCEPT ![doc_id] = IF id \in @ THEN @ ELSE @ \cup {id}]

\* ------------------------------------------------- add_to_cluster

\* The candidate set without the threshold filter.
SimilarIdsAnyScore(similarity_scores, max_threshold) ==
    DOMAIN similarity_scores

\* similar_ids = {id for id, score in scores.items() if score >= max_threshold}
SimilarIds(similarity_scores, max_threshold) ==
    {id \in DOMAIN similarity_scores : similarity_scores[id] >= max_threshold}

NoScan == [returned |-> FALSE, matched |-> FALSE, existing_cluster_id |-> 0, existing_ids |-> {}]

\* The scan without its "already in a cluster" return.
RECURSIVE ScanWithoutAlreadyCheck(_, _, _, _, _)
ScanWithoutAlreadyCheck(hits, docs, item_id, similar_ids, acc) ==
    IF hits = <<>> THEN acc
    ELSE LET cluster_id == Head(hits)
             seen == [acc EXCEPT !.existing_ids = @ \cup {cluster_id}]
         IN ScanWithoutAlreadyCheck(Tail(hits), docs, item_id, similar_ids,
                IF similar_ids \cap docs[cluster_id] # {}
                THEN [seen EXCEPT !.matched = TRUE, !.existing_cluster_id = cluster_id]
                ELSE seen)

\* The scan with a break at the first cluster that meets similar_ids.
RECURSIVE ScanBreakOnMatch(_, _, _, _, _)
ScanBreakOnMatch(hits, docs, item_id, similar_ids, acc) ==
    IF hits = <<>> THEN acc
    ELSE LET cluster_id == Head(hits)
             cluster_ids == docs[cluster_id]
             seen == [acc EXCEPT !.existing_ids = @ \cup {cluster_id}]
         IN IF item_id \in cluster_ids
            THEN [seen EXCEPT !.returned = TRUE]
            ELSE IF similar_ids \cap cluster_ids # {}
            THEN [seen EXCEPT !.matched = TRUE, !.existing_cluster_id = cluster_id]
            ELSE ScanBreakOnMatch(Tail(hits), docs, item_id, similar_ids, seen)

\* The loop over the hits of get_all_documents: the function returns at a
\* cluster that holds item_id; a cluster that meets similar_ids becomes the
\* target, a later one replacing an earlier one.
RECURSIVE ScanClusters(_, _, _, _, _)
ScanClusters(hits, docs, item_id, similar_ids, acc) ==
    IF hits = <<>> THEN acc
    ELSE LET cluster_id == Head(hits)
             cluster_ids == docs[cluster_id]
             seen == [acc EXCEPT !.existing_ids = @ \cup {cluster_id}]
         IN IF item_id \in cluster_ids
            THEN [seen EXCEPT !.returned = TRUE]
            ELSE ScanClusters(Tail(hits), docs, item_id, similar_ids,
                    IF similar_ids \cap cluster_ids # {}
                    THEN [seen EXCEPT !.matched = TRUE, !.existing_cluster_id = cluster_id]
                    ELSE seen)

\* The new id without the "+ 1": the highest existing id.
NewClusterIdWithoutIncrement(existing_ids) ==
    IF existing_ids # {} THEN SetMax(existing_ids) ELSE 1

\* The new id taken from the number of clusters.
NewClusterIdByCount(existing_ids) ==
    Cardinality(existing_ids) + 1

\* new_id = str(max(existing_ids) + 1) if existing_ids else "1"
NewClusterId(existing_ids) ==
    IF existing_ids # {} THEN SetMax(existing_ids) + 1 ELSE 1

\* The branch "elif similar_ids: ... else: ..." of add_to_cluster.
CreateCluster(docs, item_id, similar_ids, existing_ids) ==
    IF similar_ids # {}
    THEN LET all_ids == similar_ids \cup {item_id}
         IN IF Cardinality(all_ids) > 1
            THEN [store |-> Index(docs, NewClusterId(existing_ids), all_ids),
                  outcome |-> "created"]
            ELSE [store |-> docs, outcome |-> "not_enough"]
    ELSE [store |-> docs, outcome |-> "no_similar"]

\* add_to_cluster without "if similarity is None: return": similarity.get
\* on None raises.
add_to_cluster_without_none_check(item_id, key, similarity, hits, docs) ==
    IF ~similarity.found
    THEN [store |-> docs, outcome |-> "raised"]
    ELSE LET similar_ids == SimilarIds(similarity.scores, MaxThreshold(key))
             scan == ScanClusters(hits, docs, item_id, similar_ids, NoScan)
         IN IF scan.returned
            THEN [store |-> docs, outcome |-> "already"]
            ELSE IF scan.matched
            THEN [store |-> Update(docs, scan.existing_cluster_id, item_id),
                  outcome |-> "appended"]
            ELSE CreateCluster(docs, item_id, similar_ids, scan.existing_ids)

\* add_to_cluster(item_id, key) against the documents docs returned in the
\* order hits, with the backend's answer similarity: the store it leaves
\* and what it reported.
add_to_cluster(item_id, key, similarity, hits, docs) ==
    IF ~similarity.found
    THEN [store |-> docs, outcome |-> "no_similarity"]
    ELSE LET similar_ids == SimilarIds(similarity.scores, MaxThreshold(key))
             scan == ScanClusters(hits, docs, item_id, similar_ids, NoScan)
         IN IF scan.returned
            THEN [store |-> docs, outcome |-> "already"]
            ELSE IF scan.matched
            THEN [store |-> Update(docs, scan.existing_cluster_id, item_id),
                  outcome |-> "appended"]
            ELSE CreateCluster(docs, item_id, similar_ids, scan.existing_ids)

\* --------------------------------------------- specification of the store

NoCall == [item_id |-> 0, key |-> "", similarity |-> NoSimilarity,
           hits |-> <<>>, before |-> <<>>, outcome |-> "none"]

\* Every record id is a member of at most one cluster.
AtMostOneCluster(docs) ==
    \A x \in Ids : Cardinality({c \in DOMAIN docs : x \in docs[c]}) <= 1

\* The stores add_to_cluster may find: empty, or up to MaxInitClusters
\* clusters with non-empty member sets, no id in two clusters.
InitStores ==
    {s \in UNION {[D -> SUBSET Ids \ {{}}] : D \in SUBSET (0..MaxInitId)} :
        /\ Cardinality(DOMAIN s) <= MaxInitClusters
        /\ AtMostOneCluster(s)}

StoreIdle == store = <<>> /\ call = NoCall /\ pc = "off"

BatchIdle ==
    /\ provider = <<>> /\ threshold_list = <<>> /\ ti = 0 /\ pos = 0
    /\ clusters = <<>> /\ similarity_cache = <<>>
    /\ outputs = <<>> /\ cleaned_outputs = <<>>

NoOutput == [done |-> FALSE, output |-> <<>>]

DiffIdle == data = <<>> /\ diff_output = NoOutput

NoDoc == [done |-> FALSE, indexed |-> FALSE, min_threshold |-> 0, similar_ids |-> <<>>]

ProcIdle ==
    /\ similarity_doc = <<>> /\ cp_threshold = <<>> /\ next_item = 0
    /\ cp_similar_ids = <<>> /\ cp_min = 0 /\ asked = <<>> /\ response = <<>>
    /\ cleaned_doc = NoDoc

NoMerge == [done |-> FALSE, outcome |-> "none", error |-> "", value |-> <<>>,
            reads |-> <<>>, merge_calls |-> 0, oracle_calls |-> 0]

MergeIdle ==
    /\ dicts = <<>> /\ merged_runs = <<>>
    /\ records = <<>> /\ merge_doc = <<>> /\ merge_out = NoMerge

InitStore ==
    /\ store \in InitStores
    /\ call = NoCall
    /\ pc = "idle"
    /\ BatchIdle /\ DiffIdle /\ ProcIdle /\ MergeIdle

\* A caller invokes add_to_cluster(item_id, key); the backend's answer to
\* evaluate_similarity is fixed with the call.
Invoke ==
    /\ pc = "idle"
    /\ \E item_id \in Ids, key \in Keys :
         \E similarity \in Similarities(item_id) :
            call' = [NoCall EXCEPT !.item_id = item_id, !.key = key,
                                   !.similarity = similarity]
    /\ pc' = "called"
    /\ UNCHANGED <<store, batchVars, diffVars, procVars, mergeVars>>

\* The body of add_to_cluster, one call at a time: the read of all clusters
\* (in the order hits the backend returns them) and the write.
AddToCluster ==
    /\ pc = "called"
    /\ \E hits \in Perms(DOMAIN store) :
         LET r == add_to_cluster(call.item_id, call.key, call.similarity, hits, store)
         IN /\ store' = r.store
            /\ call' = [call EXCEPT !.hits = hits, !.before = store, !.outcome = r.outcome]
    /\ pc' = "returned"
    /\ UNCHANGED <<batchVars, diffVars, procVars, mergeVars>>

\* The call has returned; the next one may start.
Return ==
    /\ pc = "returned"
    /\ call' = NoCall
    /\ pc' = "idle"
    /\ UNCHANGED <<store, batchVars, diffVars, procVars, mergeVars>>

NextStore == Invoke \/ AddToCluster \/ Return

SpecStore == InitStore /\ [][NextStore]_vars

\* ====================================================================
\* Batch clustering: ClusteringOperations
\* ====================================================================

\* The batch run clusters the ids 1..NumBatchIds, in this order.
NumBatchIds == 3

\* id_list = [item["id"] for item in items if "id" in item]
id_list == [i \in 1..NumBatchIds |-> i]

BatchIds == 1..NumBatchIds

\* Scores the backend may report for a pair, and the thresholds of a run:
\* 80 is under both thresholds, 85 is on the lower threshold and under the
\* higher one, 90 is above both; a pair the backend does not report has no
\* score.
BatchScores == {80, 85, 90}
BatchThresholds == {85, 87}

\* The thresholds argument of analyze_clustering: two runs.
ThresholdLists == [1..2 -> BatchThresholds]

\* evaluate_similarity's answers for the corpus: per id None, or scores for
\* some of the other ids. Not symmetric.
BatchSimilarities(item_id) ==
    {NoSimilarity} \cup
    {[found |-> TRUE, scores |-> s] : s \in PartialFns(BatchIds \ {item_id}, BatchScores)}

RECURSIVE ProvidersUpTo(_)
ProvidersUpTo(n) ==
    IF n = 0 THEN {<<>>}
    ELSE {Append(p, s) : p \in ProvidersUpTo(n - 1), s \in BatchSimilarities(n)}

Providers == ProvidersUpTo(NumBatchIds)

\* id_to_question.get(item_id, "N/A"): here only id 1 has a question text.
id_to_question == [i \in {1} |-> "q1"]

Question(item_id) ==
    IF item_id \in DOMAIN id_to_question THEN id_to_question[item_id] ELSE "N/A"

SetMin(S) == CHOOSE m \in S : \A x \in S : m <= x

\* The pairwise score with the direct and the reverse lookup swapped.
PairScoreReverseFirst(cache, item_id, id) ==
    IF id \in DOMAIN cache /\ item_id \in DOMAIN cache[id].scores
    THEN [found |-> TRUE, score |-> cache[id].scores[item_id]]
    ELSE IF id \in DOMAIN cache[item_id].scores
    THEN [found |-> TRUE, score |-> cache[item_id].scores[id]]
    ELSE [found |-> FALSE, score |-> 0]

\* The pairwise score as the higher of the direct and the reverse score.
PairScoreHigher(cache, item_id, id) ==
    LET direct == id \in DOMAIN cache[item_id].scores
        revers == id \in DOMAIN cache /\ item_id \in DOMAIN cache[id].scores
    IN IF direct /\ revers
       THEN [found |-> TRUE,
             score |-> IF cache[item_id].scores[id] >= cache[id].scores[item_id]
                       THEN cache[item_id].scores[id] ELSE cache[id].scores[item_id]]
       ELSE IF direct THEN [found |-> TRUE, score |-> cache[item_id].scores[id]]
       ELSE IF revers THEN [found |-> TRUE, score |-> cache[id].scores[item_id]]
       ELSE [found |-> FALSE, score |-> 0]

\* score = similarity_scores.get(id); when None and id is in the cache,
\* the reverse lookup self.similarity_cache[id].get(id, {}).get(item_id).
PairScore(cache, item_id, id) ==
    IF id \in DOMAIN cache[item_id].scores
    THEN [found |-> TRUE, score |-> cache[item_id].scores[id]]
    ELSE IF id \in DOMAIN cache /\ item_id \in DOMAIN cache[id].scores
    THEN [found |-> TRUE, score |-> cache[id].scores[item_id]]
    ELSE [found |-> FALSE, score |-> 0]

\* The match test with the comparison turned round.
MatchesBelow(cache, item_id, id, threshold) ==
    LET s == PairScore(cache, item_id, id)
    IN s.found /\ s.score < threshold

\* score is not None and score >= threshold
Matches(cache, item_id, id, threshold) ==
    LET s == PairScore(cache, item_id, id)
    IN s.found /\ s.score >= threshold

\* The cache after the lookup of item_id: filled on a miss.
CacheWith(cache, item_id, similarity) ==
    IF item_id \in DOMAIN cache THEN cache
    ELSE [k \in DOMAIN cache \cup {item_id} |->
            IF k = item_id THEN similarity ELSE cache[k]]

\* cluster_items with the matched id appended to every matching cluster.
cluster_items_all_matches(item_id, threshold, cls, cache, similarity) ==
    IF item_id \notin DOMAIN cache /\ ~similarity.found
    THEN [clusters |-> cls, cache |-> cache]
    ELSE LET c2 == CacheWith(cache, item_id, similarity)
             matching == {c \in 1..Len(cls) :
                            \E k \in 1..Len(cls[c]) : Matches(c2, item_id, cls[c][k], threshold)}
         IN [clusters |-> IF matching # {}
                          THEN [c \in 1..Len(cls) |->
                                  IF c \in matching THEN Append(cls[c], item_id) ELSE cls[c]]
                          ELSE Append(cls, <<item_id>>),
             cache |-> c2]

\* cluster_items with the last matching cluster of the list as the target.
cluster_items_last_match(item_id, threshold, cls, cache, similarity) ==
    IF item_id \notin DOMAIN cache /\ ~similarity.found
    THEN [clusters |-> cls, cache |-> cache]
    ELSE LET c2 == CacheWith(cache, item_id, similarity)
             matching == {c \in 1..Len(cls) :
                            \E k \in 1..Len(cls[c]) : Matches(c2, item_id, cls[c][k], threshold)}
         IN [clusters |-> IF matching # {}
                          THEN [cls EXCEPT ![SetMax(matching)] = Append(@, item_id)]
                          ELSE Append(cls, <<item_id>>),
             cache |-> c2]

\* cluster_items(item_id, key, threshold, clusters), similarity being the
\* backend's answer on a cache miss: the cluster list and the cache it
\* leaves. The first cluster, in list order, with a member whose pairwise
\* score is on or above the threshold gets the id; without one the id
\* starts a new cluster; without a similarity result the id is skipped.
cluster_items(item_id, threshold, cls, cache, similarity) ==
    IF item_id \notin DOMAIN cache /\ ~similarity.found
    THEN [clusters |-> cls, cache |-> cache]
    ELSE LET c2 == CacheWith(cache, item_id, similarity)
             matching == {c \in 1..Len(cls) :
                            \E k \in 1..Len(cls[c]) : Matches(c2, item_id, cls[c][k], threshold)}
         IN [clusters |-> IF matching # {}
                          THEN [cls EXCEPT ![SetMin(matching)] = Append(@, item_id)]
                          ELSE Append(cls, <<item_id>>),
             cache |-> c2]

\* output = {f"clusters_{i+1}": [{"id": ..., "question": ...} for item_id in clus]
\*           for i, clus in enumerate(clusters) if clus}; the label
\* clusters_<n> is the number n.
Output(cls) ==
    [n \in {i \in 1..Len(cls) : cls[i] # <<>>} |->
        [k \in 1..Len(cls[n]) |-> [id |-> cls[n][k], question |-> Question(cls[n][k])]]]

\* clean_clusters that keeps every non-empty cluster.
clean_clusters_nonempty(cluster_output) ==
    [key \in {k \in DOMAIN cluster_output : Len(cluster_output[k]) > 0} |->
        cluster_output[key]]

\* clean_clusters: {key: members for key, members in cluster_output.items()
\*                  if isinstance(members, list) and len(members) > 1}
clean_clusters(cluster_output) ==
    [key \in {k \in DOMAIN cluster_output : Len(cluster_output[k]) > 1} |->
        cluster_output[key]]

InitBatch ==
    /\ provider \in Providers
    /\ threshold_list \in ThresholdLists
    /\ ti = 1
    /\ pos = 0
    /\ clusters = <<>>
    /\ similarity_cache = <<>>
    /\ outputs = <<>>
    /\ cleaned_outputs = <<>>
    /\ StoreIdle /\ DiffIdle /\ ProcIdle /\ MergeIdle

\* The head of the loop over thresholds: cache and cluster list start empty.
BeginThreshold ==
    /\ ti <= Len(threshold_list)
    /\ pos = 0
    /\ similarity_cache' = <<>>
    /\ clusters' = <<>>
    /\ pos' = 1
    /\ UNCHANGED <<provider, threshold_list, ti, outputs, cleaned_outputs,
                   storeVars, diffVars, procVars, mergeVars>>

\* clusters = self.cluster_items(id, key, threshold, clusters) for the next id.
ClusterItem ==
    /\ ti <= Len(threshold_list)
    /\ pos \in 1..Len(id_list)
    /\ LET r == cluster_items(id_list[pos], threshold_list[ti], clusters,
                              similarity_cache, provider[id_list[pos]])
       IN /\ clusters' = r.clusters
          /\ similarity_cache' = r.cache
    /\ pos' = pos + 1
    /\ UNCHANGED <<provider, threshold_list, ti, outputs, cleaned_outputs,
                   storeVars, diffVars, procVars, mergeVars>>

\* The end of a run: the output and its cleaned view are written.
SaveOutput ==
    /\ ti <= Len(threshold_list)
    /\ pos = Len(id_list) + 1
    /\ outputs' = Append(outputs, Output(clusters))
    /\ cleaned_outputs' = Append(cleaned_outputs, clean_clusters(Output(clusters)))
    /\ ti' = ti + 1
    /\ pos' = 0
    /\ UNCHANGED <<provider, threshold_list, clusters, similarity_cache,
                   storeVars, diffVars, procVars, mergeVars>>

NextBatch == BeginThreshold \/ ClusterItem \/ SaveOutput

SpecBatch == InitBatch /\ [][NextBatch]_vars

\* ====================================================================
\* clean_clusters on any cluster output
\* ====================================================================

\* A cluster output has labels clusters_1..clusters_<MaxCleanLabels>, each
\* with at most MaxCleanMembers members.
MaxCleanLabels == 2
MaxCleanMembers == 2

CleanMembers == {[id |-> 1, question |-> "q1"], [id |-> 2, question |-> "N/A"]}

CleanMemberLists == UNION {[1..n -> CleanMembers] : n \in 0..MaxCleanMembers}

\* Any mapping from labels to member lists, empty lists included.
ClusterOutputs == PartialFns(1..MaxCleanLabels, CleanMemberLists)

InitClean ==
    /\ outputs \in {<<o>> : o \in ClusterOutputs}
    /\ cleaned_outputs = <<>>
    /\ provider = <<>> /\ threshold_list = <<>> /\ ti = 0 /\ pos = 0
    /\ clusters = <<>> /\ similarity_cache = <<>>
    /\ StoreIdle /\ DiffIdle /\ ProcIdle /\ MergeIdle

\* cleaned_output = self.clean_clusters(output)
Clean ==
    /\ ti = 0
    /\ Len(outputs) = 1
    /\ cleaned_outputs = <<>>
    /\ cleaned_outputs' = <<clean_clusters(outputs[1])>>
    /\ UNCHANGED <<provider, threshold_list, ti, pos, clusters, similarity_cache,
                   outputs, storeVars, diffVars, procVars, mergeVars>>

NextClean == Clean

SpecClean == InitClean /\ [][NextClean]_vars

\* ------------------------------------------- claims about batch clustering

\* The member ids of each cluster of an output.
ClusterSets(output) ==
    {{output[l][k].id : k \in 1..Len(output[l])} : l \in DOMAIN output}

\* The pairwise score the later of two ids finds for the earlier one: its
\* own score for it, else the earlier id's score for the later one.
Linked(x, y, t) ==
    LET late == IF x > y THEN x ELSE y
        early == IF x > y THEN y ELSE x
    IN /\ x # y
       /\ provider[late].found /\ provider[early].found
       /\ IF early \in DOMAIN provider[late].scores
          THEN provider[late].scores[early] >= t
          ELSE /\ late \in DOMAIN provider[early].scores
               /\ provider[early].scores[late] >= t

\* The ids chained to those of S by pairwise scores on or above t.
RECURSIVE Chained(_, _)
Chained(S, t) ==
    LET T == S \cup {y \in BatchIds : \E x \in S : Linked(x, y, t)}
    IN IF T = S THEN S ELSE Chained(T, t)

\* Every cluster of the run b is inside one cluster of the run a.
Refines(a, b) ==
    \A c2 \in ClusterSets(outputs[b]) :
        \E c1 \in ClusterSets(outputs[a]) : c2 \subseteq c1

\* C3 as stated: for thresholds t1 < t2, every cluster formed at t2 is a
\* subset of some cluster formed at t1.
C3_Original ==
    \A a, b \in 1..Len(outputs) :
        threshold_list[a] < threshold_list[b] => Refines(a, b)

\* C3 amended: for thresholds t1 < t2, every cluster formed at t2 is a
\* subset of a union of clusters formed at t1 that pairwise scores on or
\* above t1 chain together (each cluster formed at t1 lies inside one such
\* chain); it need not be inside a single cluster formed at t1.
C3_SubsetOfChainedClusters ==
    \A a, b \in 1..Len(outputs) :
        threshold_list[a] < threshold_list[b] =>
            /\ \A c2 \in ClusterSets(outputs[b]) :
                 \E x \in c2 : c2 \subseteq Chained({x}, threshold_list[a])
            /\ \A c1 \in ClusterSets(outputs[a]) :
                 \A x \in c1 : c1 \subseteq Chained({x}, threshold_list[a])

\* C3 witness: both runs are saved, t1 < t2, and a cluster formed at t2 is
\* inside no single cluster formed at t1.
C3_Witness ==
    /\ Len(outputs) = 2
    /\ \E a, b \in 1..2 : threshold_list[a] < threshold_list[b] /\ ~Refines(a, b)

\* How often the id x occurs in the cluster list.
Occurrences(cls, x) ==
    Cardinality({ck \in (1..Len(cls)) \X (1..NumBatchIds) :
                    ck[2] <= Len(cls[ck[1]]) /\ cls[ck[1]][ck[2]] = x})

\* C5 as stated: after the last id, the clusters are non-empty and every
\* input id is a member of exactly one cluster, an id without a similarity
\* result included.
C5_Original ==
    pos = Len(id_list) + 1 =>
        /\ \A c \in 1..Len(clusters) : clusters[c] # <<>>
        /\ \A x \in BatchIds : Occurrences(clusters, x) = 1

\* C5 amended: after the last id, the clusters are non-empty and pairwise
\* disjoint and partition the input ids for which the similarity provider
\* returned a result; an id without a result is in no cluster.
C5_PartitionOfScoredIds ==
    pos = Len(id_list) + 1 =>
        /\ \A c \in 1..Len(clusters) : clusters[c] # <<>>
        /\ \A x \in BatchIds :
             Occurrences(clusters, x) = IF provider[x].found THEN 1 ELSE 0

\* C5 witness: the run is over, one id had no similarity result and the
\* two others share a cluster.
C5_Witness ==
    /\ pos = Len(id_list) + 1
    /\ \E x \in BatchIds : ~provider[x].found
    /\ \E c \in 1..Len(clusters) : Len(clusters[c]) >= 2

\* C7: the cleaned view holds exactly the entries of the output with more
\* than one member, under their labels and with their member lists.
C7_CleanedExactlyMultiMember ==
    \A r \in 1..Len(cleaned_outputs) :
        /\ DOMAIN cleaned_outputs[r] =
              {l \in DOMAIN outputs[r] : Len(outputs[r][l]) >= 2}
        /\ \A l \in DOMAIN cleaned_outputs[r] : cleaned_outputs[r][l] = outputs[r][l]

\* C7 witness: an output with an empty, or one-member, cluster and a
\* two-member cluster has been cleaned.
C7_Witness ==
    /\ Len(cleaned_outputs) = 1
    /\ \E l \in DOMAIN outputs[1] : Len(outputs[1][l]) <= 1
    /\ \E l \in DOMAIN outputs[1] : Len(outputs[1][l]) = 2
    /\ DOMAIN cleaned_outputs[1] # {}

\* ====================================================================
\* Snapshot diff: DiffOperations.compare_clusters
\* ====================================================================

\* The cluster files compared are 1..NumSnapshots, each with labels among
\* clusters_1..clusters_<MaxLabels> and at most MaxMembers members a cluster.
NumSnapshots == 2
MaxLabels == 2
MaxMembers == 2

\* A member record as the JSON object it is read from: its key/value pairs
\* in the order of the file. MemberA and MemberAKeysSwapped are the same
\* record with its keys in two orders.
MemberA == << <<"id", "a">>, <<"question", "qa">> >>
MemberAKeysSwapped == << <<"question", "qa">>, <<"id", "a">> >>
MemberB == << <<"id", "b">>, <<"question", "N/A">> >>
Members == {MemberA, MemberAKeysSwapped, MemberB}

\* Clusters written by analyze_clustering are never empty.
MemberLists == UNION {[1..n -> Members] : n \in 1..MaxMembers}

Snapshots == PartialFns(1..MaxLabels, MemberLists)

\* The order of the keys of a member record under sort_keys=True.
KeyRank == [k \in {"id", "question"} |-> IF k = "id" THEN 1 ELSE 2]

\* One JSON object with its keys in the order they were written.
KeepKeyOrder(member) == member

\* One JSON object with its keys sorted.
SortKeys(member) ==
    CHOOSE m \in Perms({member[i] : i \in 1..Len(member)}) :
        \A i, j \in 1..Len(m) : i < j => KeyRank[m[i][1]] < KeyRank[m[j][1]]

\* json.dumps(value, sort_keys=True): the members in list order, the keys
\* of each member sorted. The text is modelled by the sequence it spells.
Dumps(value) == [i \in 1..Len(value) |-> SortKeys(value[i])]

\* json.loads of such a text: the list, each member with its keys as spelt.
Loads(value_str) == value_str

\* cluster_map[value_str]: the (file, label) places of the clusters that
\* serialize to value_str.
Locations(d, value_str) ==
    {loc \in (DOMAIN d) \X (1..MaxLabels) :
        loc[2] \in DOMAIN d[loc[1]] /\ Dumps(d[loc[1]][loc[2]]) = value_str}

\* The labels of file f whose cluster has a single place in cluster_map.
UniqueLabels(d, f) ==
    {key \in DOMAIN d[f] : Cardinality(Locations(d, Dumps(d[f][key]))) = 1}

\* compare_clusters: per file with such a cluster, those clusters by label.
compare_clusters(d) ==
    [f \in {g \in DOMAIN d : UniqueLabels(d, g) # {}} |->
        [key \in UniqueLabels(d, f) |-> Loads(Dumps(d[f][key]))]]

InitDiff ==
    /\ data \in [1..NumSnapshots -> Snapshots]
    /\ diff_output = NoOutput
    /\ StoreIdle /\ BatchIdle /\ ProcIdle /\ MergeIdle

\* output = self.compare_clusters(input_files)
CompareClusters ==
    /\ DOMAIN data # {}
    /\ ~diff_output.done
    /\ diff_output' = [done |-> TRUE, output |-> compare_clusters(data)]
    /\ UNCHANGED <<data, storeVars, batchVars, procVars, mergeVars>>

NextDiff == CompareClusters

SpecDiff == InitDiff /\ [][NextDiff]_vars

\* ------------------------------------------------- claims about the diff

\* The cluster under label key of file f is in the diff output under f.
InDiffOutput(f, key) ==
    f \in DOMAIN diff_output.output /\ key \in DOMAIN diff_output.output[f]

\* Some cluster of another file has the canonical form of the cluster
\* under label key of file f.
EqualInOtherSnapshot(f, key) ==
    \E g \in DOMAIN data \ {f} : \E k2 \in DOMAIN data[g] :
        Dumps(data[g][k2]) = Dumps(data[f][key])

\* C4: a cluster of snapshot Si is in the diff output under Si if and only
\* if no cluster with an equal canonical form exists in another snapshot,
\* also when its only equal copies are under other labels of Si.
C4_UniqueIffInNoOtherSnapshot ==
    diff_output.done =>
        \A f \in DOMAIN data : \A key \in DOMAIN data[f] :
            InDiffOutput(f, key) <=> ~EqualInOtherSnapshot(f, key)

\* C4 witness: the diff is computed for a snapshot that holds one cluster
\* under two labels and shares it with no other snapshot.
C4_Witness ==
    /\ diff_output.done
    /\ \E f \in DOMAIN data : \E k1, k2 \in DOMAIN data[f] :
         /\ k1 # k2
         /\ Dumps(data[f][k1]) = Dumps(data[f][k2])
         /\ ~EqualInOtherSnapshot(f, k1)

\* ====================================================================
\* Borderline resolution: CosineClusterer.cluster_process
\* ====================================================================

\* The similarity document names at most MaxCandidates candidates.
MaxCandidates == 2

\* The document's subject and its candidates.
SubjectId == "A"
CandidateIds == 1..MaxCandidates

EmbeddingKey == "bge_search_vector"

\* Scores of the candidates: under, on and above the thresholds 80 and 90.
ProcessScores == {75, 80, 82, 90, 95}

\* The ThresholdDoc values a caller may configure: safe >= min.
ThresholdDocs == {p \in [safe : {80, 90}, min : {80, 90}] : p.safe >= p.min}

\* self.threshold: no policy for the key, or one ThresholdDoc.
ThresholdConfigs == {<<>>} \cup {[k \in {EmbeddingKey} |-> p] : p \in ThresholdDocs}

\* The thresholds taken when the lookup of the key's policy fails.
DefaultSafe == 90
DefaultMin == 80

\* The try/except at the head of cluster_process.
SafeThreshold ==
    IF similarity_doc.embedding_key \in DOMAIN cp_threshold
    THEN cp_threshold[similarity_doc.embedding_key].safe ELSE DefaultSafe

MinThreshold ==
    IF similarity_doc.embedding_key \in DOMAIN cp_threshold
    THEN cp_threshold[similarity_doc.embedding_key].min ELSE DefaultMin

\* similar_id: a dict, iterated in insertion order; every order of every
\* set of candidates, each with a score.
SimilarIdItems ==
    UNION {{[i \in 1..Len(o) |-> [sim_id |-> o[i], score |-> sc[i]]] :
                o \in Perms(C), sc \in [1..Cardinality(C) -> ProcessScores]} :
           C \in SUBSET CandidateIds}

\* Replies of the oracle, as the characters of message.content; an absent
\* content (None) is as falsy as the empty reply.
ReplyTrue == <<"t", "r", "u", "e">>
ReplyTrueLoud == <<" ", "T", "R", "U", "E", ".", " ">>
ReplyFalse == <<"f", "a", "l", "s", "e">>
ReplyFalseLoud == <<"F", "a", "l", "s", "e", "!">>
ReplyEmpty == <<>>
ReplyBlank == <<" ">>
ReplyYes == <<"y", "e", "s">>
ReplyNotTrue == <<"n", "o", "t", " ", "t", "r", "u", "e">>
Replies == {ReplyTrue, ReplyTrueLoud, ReplyFalse, ReplyFalseLoud, ReplyEmpty,
            ReplyBlank, ReplyYes, ReplyNotTrue}

\* str.lower on the characters used.
LowerChar(c) ==
    CASE c = "T" -> "t" [] c = "R" -> "r" [] c = "U" -> "u" [] c = "E" -> "e"
      [] c = "F" -> "f" [] c = "A" -> "a" [] c = "L" -> "l" [] c = "S" -> "s"
      [] OTHER -> c

Lower(text) == [i \in 1..Len(text) |-> LowerChar(text[i])]

\* str.strip: leading and trailing whitespace removed.
RECURSIVE StripLeft(_)
StripLeft(text) ==
    IF text # <<>> /\ Head(text) = " " THEN StripLeft(Tail(text)) ELSE text

RECURSIVE StripRight(_)
StripRight(text) ==
    IF text # <<>> /\ text[Len(text)] = " "
    THEN StripRight(SubSeq(text, 1, Len(text) - 1)) ELSE text

Strip(text) == StripRight(StripLeft(text))

\* str.startswith
StartsWith(text, prefix) ==
    Len(text) >= Len(prefix) /\ SubSeq(text, 1, Len(prefix)) = prefix

\* The reply check that takes every reply but "false" for a yes.
LLMResultUnlessFalse(reply) ==
    IF reply # <<>> /\ StartsWith(Lower(Strip(reply)), <<"f", "a", "l", "s", "e">>)
    THEN "False" ELSE "True"

\* The tail of _LLM_similarity_check: True, False or None from the reply.
LLMResult(reply) ==
    IF reply # <<>>
    THEN IF Lower(Strip(reply)) = <<"t", "r", "u", "e">>
            \/ StartsWith(Lower(Strip(reply)), <<"t", "r", "u", "e">>)
         THEN "True"
         ELSE IF Lower(Strip(reply)) = <<"f", "a", "l", "s", "e">>
                 \/ StartsWith(Lower(Strip(reply)), <<"f", "a", "l", "s", "e">>)
         THEN "False"
         ELSE "None"
    ELSE "None"

\* The branch test with a strict comparison against safe.
BranchStrictSafe(score, safe_threshold, min_threshold) ==
    IF score > safe_threshold THEN "safe"
    ELSE IF min_threshold <= score /\ score <= safe_threshold THEN "ambiguous"
    ELSE "irrelevant"

\* if score >= safe_threshold / elif min_threshold <= score < safe_threshold / else
Branch(score, safe_threshold, min_threshold) ==
    IF score >= safe_threshold THEN "safe"
    ELSE IF min_threshold <= score /\ score < safe_threshold THEN "ambiguous"
    ELSE "irrelevant"

\* min = score on each accepted candidate.
AcceptedMin(current, accepted, score) == score

InitProcess ==
    /\ similarity_doc \in [id : {SubjectId}, embedding_key : {EmbeddingKey},
                           similar_id : SimilarIdItems]
    /\ cp_threshold \in ThresholdConfigs
    /\ next_item = 1
    /\ cp_similar_ids = <<>>
    /\ cp_min = 0
    /\ asked = <<>>
    /\ response = <<>>
    /\ cleaned_doc = NoDoc
    /\ StoreIdle /\ BatchIdle /\ DiffIdle /\ MergeIdle

\* One iteration of "for sim_id, score in similarity_doc.similar_id.items()";
\* in the ambiguous branch the oracle is asked and answers reply.
ProcessCandidate ==
    /\ next_item >= 1
    /\ ~cleaned_doc.done
    /\ next_item \in 1..Len(similarity_doc.similar_id)
    /\ LET item == similarity_doc.similar_id[next_item]
           branch == Branch(item.score, SafeThreshold, MinThreshold)
       IN \/ /\ branch = "safe"
             /\ cp_similar_ids' = Append(cp_similar_ids, item.sim_id)
             /\ cp_min' = AcceptedMin(cp_min, cp_similar_ids, item.score)
             /\ UNCHANGED <<asked, response>>
          \/ /\ branch = "ambiguous"
             /\ \E reply \in Replies :
                  /\ response' = reply
                  /\ asked' = Append(asked, item.sim_id)
                  /\ IF LLMResult(reply) = "True"
                     THEN /\ cp_similar_ids' = Append(cp_similar_ids, item.sim_id)
                          /\ cp_min' = AcceptedMin(cp_min, cp_similar_ids, item.score)
                     ELSE UNCHANGED <<cp_similar_ids, cp_min>>
          \/ /\ branch = "irrelevant"
             /\ UNCHANGED <<cp_similar_ids, cp_min, asked, response>>
    /\ next_item' = next_item + 1
    /\ UNCHANGED <<similarity_doc, cp_threshold, cleaned_doc, storeVars, batchVars, diffVars, mergeVars>>

\* After the loop: the document is indexed when similar_ids is not empty,
\* and returned with min_threshold and similar_ids.
FinishProcess ==
    /\ next_item >= 1
    /\ ~cleaned_doc.done
    /\ next_item = Len(similarity_doc.similar_id) + 1
    /\ cleaned_doc' = [done |-> TRUE, indexed |-> cp_similar_ids # <<>>,
                       min_threshold |-> cp_min, similar_ids |-> cp_similar_ids]
    /\ UNCHANGED <<similarity_doc, cp_threshold, next_item, cp_similar_ids, cp_min,
                   asked, response, storeVars, batchVars, diffVars, mergeVars>>

NextProcess == ProcessCandidate \/ FinishProcess

SpecProcess == InitProcess /\ [][NextProcess]_vars

\* --------------------------------------- claims about cluster_process

\* The items of the document and the item of the iteration about to run.
Items == similarity_doc.similar_id
CurrentItem == Items[next_item]

Range(seq) == {seq[k] : k \in 1..Len(seq)}

\* The score is in the ambiguous band [min, safe).
InBand(score) == MinThreshold <= score /\ score < SafeThreshold

\* A step that is one iteration of the loop over the candidates.
IterationStep == next_item \in 1..Len(Items) /\ next_item' = next_item + 1

\* The replies that are, case-insensitively and stripped, "true" or start
\* with "true".
RepliesMeaningTrue == {ReplyTrue, ReplyTrueLoud}

AcceptedScores ==
    {Items[i].score : i \in {j \in 1..Len(Items) :
                                Items[j].sim_id \in Range(cleaned_doc.similar_ids)}}

\* C9: the min_threshold of the returned document is the minimum of the
\* scores of all accepted candidates, for every iteration order of the
\* candidate mapping, and 0.0 when none is accepted.
C9_MinThresholdIsMinimum ==
    cleaned_doc.done =>
        cleaned_doc.min_threshold =
            IF AcceptedScores = {} THEN 0 ELSE SetMin(AcceptedScores)

\* C9 witness: two candidates were accepted, the one with the lower score
\* first.
C9_Witness ==
    /\ cleaned_doc.done
    /\ Len(cleaned_doc.similar_ids) = 2
    /\ Items[1].score < Items[2].score

\* How often x occurs in the sequence.
Count(seq, x) == Cardinality({k \in 1..Len(seq) : seq[k] = x})

C1_AtMostOneCluster == AtMostOneCluster(store)

\* C1 witness: a call has created a cluster beside an existing one.
C1_Witness ==
    /\ pc = "returned"
    /\ call.outcome = "created"
    /\ Cardinality(DOMAIN store) >= 2

\* C2: a call for a record id that is a member of some persisted cluster
\* writes nothing, whatever its candidates and wherever that cluster is in
\* the scan; and a call that appended or created leaves the record id in a
\* cluster, so that a second call for it right after is such a call.
C2_AlreadyClusteredNoWrite ==
    [][ /\ (pc = "called" /\ \E c \in DOMAIN store : call.item_id \in store[c])
            => store' = store
        /\ (pc' = "returned" /\ call'.outcome \in {"appended", "created"})
            => \E c \in DOMAIN store' : call'.item_id \in store'[c] ]_vars

\* C2 witness: the call returned "already" at the second cluster of the
\* scan, after a first cluster that holds one of its candidates.
C2_Witness ==
    /\ pc = "returned"
    /\ call.outcome = "already"
    /\ Len(call.hits) >= 2
    /\ call.item_id \in store[call.hits[2]]
    /\ \E x \in store[call.hits[1]] :
          /\ x \in DOMAIN call.similarity.scores
          /\ call.similarity.scores[x] >= MaxThreshold(call.key)

\* No candidate of the call has a score at or above the key's max threshold.
NoCandidateAtMax(c) ==
    \A x \in DOMAIN c.similarity.scores : c.similarity.scores[x] < MaxThreshold(c.key)

\* C6: when no candidate of the record has a score at or above the key's
\* max threshold, add_to_cluster leaves the persisted store unchanged.
C6_NoCandidateNoWrite ==
    [][ (pc = "called" /\ NoCandidateAtMax(call)) => store' = store ]_vars

\* C6 witness: the call returned without a write although the record has a
\* candidate (below max, and below min for the e5 key) in a persisted cluster.
C6_Witness ==
    /\ pc = "returned"
    /\ call.outcome = "no_similar"
    /\ call.key = "question.e5_search_vector"
    /\ NoCandidateAtMax(call)
    /\ \E x \in DOMAIN call.similarity.scores :
          /\ call.similarity.scores[x] < thresholds[call.key].min
          /\ \E c \in DOMAIN store : x \in store[c]

\* C11: when the similarity provider has no result for the record, the call
\* returns at its "similarity is None" test: it does not raise, creates no
\* cluster and updates none.
C11_NoSimilarityNoWrite ==
    [][ (pc = "called" /\ ~call.similarity.found) =>
            /\ call'.outcome = "no_similarity"
            /\ store' = store ]_vars

\* C11 witness: the call returned for want of a similarity result, for a
\* record that is in no cluster while the store holds one.
C11_Witness ==
    /\ pc = "returned"
    /\ call.outcome = "no_similarity"
    /\ ~call.similarity.found
    /\ DOMAIN store # {}
    /\ \A c \in DOMAIN store : call.item_id \notin store[c]

\* ====================================================================
\* Merging of confirmed duplicates: CosineClusters
\* ====================================================================

\* Lists in a record's fields have at most MaxListLen elements.
MaxListLen == 1
\* _merge_dicts is run at most MaxRuns times on the same two dicts.
MaxRuns == 2

\* The fields a record may have; "question" is the one in merging_keys.
FieldKeys == {"question", "answer", "tags"}
merging_keys == {"question"}

Scalars == {"a", "b"}

\* A field's value: a scalar x is [list |-> FALSE, items |-> <<x>>], a list
\* is [list |-> TRUE, items |-> its elements]; isinstance(value, list) is
\* the flag.
Values ==
    {[list |-> FALSE, items |-> <<x>>] : x \in Scalars} \cup
    {[list |-> TRUE, items |-> l] : l \in UNION {[1..n -> Scalars] : n \in 0..MaxListLen}}

\* The records (dicts): a question, if present, is a string.
Dicts ==
    {r \in PartialFns(FieldKeys, Values) : "question" \in DOMAIN r => ~r["question"].list}

\* What merger.merging_question may return for a merging key.
MergedQuestions == {[list |-> FALSE, items |-> <<x>>] : x \in {"a+b", "b+a"}}

\* The elements of seq without the repetitions, first occurrences kept.
RECURSIVE Dedup(_)
Dedup(seq) ==
    IF seq = <<>> THEN <<>>
    ELSE LET init == Dedup(SubSeq(seq, 1, Len(seq) - 1))
             last == seq[Len(seq)]
         IN IF \E k \in 1..Len(init) : init[k] = last THEN init ELSE Append(init, last)

\* combined = value.copy() or [value]; then extend(other) or append(other)
Combined(value, other) == [list |-> TRUE, items |-> value.items \o other.items]

\* _merge_dicts with the shared lists combined without repetitions.
_merge_dicts_dedup(d1, d2, answers) ==
    [merged |-> [key \in DOMAIN d1 \cup DOMAIN d2 |->
                    IF key \in DOMAIN d1
                    THEN IF key \in DOMAIN d2
                         THEN IF key \in merging_keys
                              THEN answers[key]
                              ELSE [list |-> TRUE,
                                    items |-> Dedup(d1[key].items \o d2[key].items)]
                         ELSE d1[key]
                    ELSE d2[key]],
     d1 |-> d1,
     d2 |-> d2]

\* _merge_dicts with "combined = value" for "combined = value.copy()": the
\* list of d1 is extended in place.
_merge_dicts_no_copy(d1, d2, answers) ==
    [merged |-> [key \in DOMAIN d1 \cup DOMAIN d2 |->
                    IF key \in DOMAIN d1
                    THEN IF key \in DOMAIN d2
                         THEN IF key \in merging_keys
                              THEN answers[key]
                              ELSE Combined(d1[key], d2[key])
                         ELSE d1[key]
                    ELSE d2[key]],
     d1 |-> [key \in DOMAIN d1 |->
                IF key \in DOMAIN d2 /\ key \notin merging_keys /\ d1[key].list
                THEN Combined(d1[key], d2[key]) ELSE d1[key]],
     d2 |-> d2]

\* _merge_dicts(d1, d2, model), the oracle answering answers[key] for a
\* merging key both dicts have: the dict it returns, and d1 and d2 as they
\* are after the call.
_merge_dicts(d1, d2, answers) ==
    [merged |-> [key \in DOMAIN d1 \cup DOMAIN d2 |->
                    IF key \in DOMAIN d1
                    THEN IF key \in DOMAIN d2
                         THEN IF key \in merging_keys
                              THEN answers[key]
                              ELSE Combined(d1[key], d2[key])
                         ELSE d1[key]
                    ELSE d2[key]],
     d1 |-> d1,
     d2 |-> d2]

InitMergeDicts ==
    /\ dicts \in [d1 : Dicts, d2 : Dicts]
    /\ merged_runs = <<>>
    /\ records = <<>> /\ merge_doc = <<>> /\ merge_out = NoMerge
    /\ StoreIdle /\ BatchIdle /\ DiffIdle /\ ProcIdle

\* One run of _merge_dicts on the two dicts.
MergeDicts ==
    /\ dicts # <<>>
    /\ Len(merged_runs) < MaxRuns
    /\ \E answers \in [merging_keys -> MergedQuestions] :
          LET r == _merge_dicts(dicts.d1, dicts.d2, answers)
          IN /\ merged_runs' = Append(merged_runs, r.merged)
             /\ dicts' = [d1 |-> r.d1, d2 |-> r.d2]
    /\ UNCHANGED <<records, merge_doc, merge_out, storeVars, batchVars, diffVars, procVars>>

NextMergeDicts == MergeDicts

SpecMergeDicts == InitMergeDicts /\ [][NextMergeDicts]_vars

\* ------------------------------------------- claims about _merge_dicts

\* C12: the dict a run of _merge_dicts returns has the keys of d1 and of
\* d2; a key of both that is no merging key has d1's value (wrapped in a
\* list if a scalar) followed by d2's value (wrapped if a scalar), nothing
\* removed; a key of one dict only has that dict's value; d1 and d2 are as
\* they were.
C12_MergeDictsUnionConcat ==
    [][ Len(merged_runs') = Len(merged_runs) + 1 =>
          LET d1 == dicts.d1
              d2 == dicts.d2
              out == merged_runs'[Len(merged_runs')]
          IN /\ DOMAIN out = DOMAIN d1 \cup DOMAIN d2
             /\ \A key \in (DOMAIN d1 \cap DOMAIN d2) \ merging_keys :
                   /\ out[key].list
                   /\ out[key].items = d1[key].items \o d2[key].items
             /\ \A key \in DOMAIN d1 \ DOMAIN d2 : out[key] = d1[key]
             /\ \A key \in DOMAIN d2 \ DOMAIN d1 : out[key] = d2[key]
             /\ dicts' = dicts ]_vars

\* C12 witness: a run returned a list with the same element twice, made of
\* a scalar of d1 and a list of d2, beside a key of d1 only and a key of d2
\* only.
C12_Witness ==
    /\ Len(merged_runs) = 1
    /\ DOMAIN dicts.d1 = {"answer", "tags"}
    /\ DOMAIN dicts.d2 = {"answer", "question"}
    /\ ~dicts.d1["answer"].list
    /\ dicts.d2["answer"].list
    /\ merged_runs[1]["answer"].items = <<"a", "a">>

\* The two dicts share no merging key: no run asks the oracle.
NoSemanticMerge == DOMAIN dicts.d1 \cap DOMAIN dicts.d2 \cap merging_keys = {}

\* C16: for two records that share no merging key, the second run of
\* _merge_dicts on them returns what the first run returned.
C16_SecondRunSameOutput ==
    (Len(merged_runs) = 2 /\ NoSemanticMerge) => merged_runs[1] = merged_runs[2]

\* C16 witness: two runs on records that share a key outside the merging
\* keys, a list in d1 and a non-empty value in d2, and where only d1 has
\* the merging key.
C16_Witness ==
    /\ Len(merged_runs) = 2
    /\ NoSemanticMerge
    /\ "question" \in DOMAIN dicts.d1
    /\ "tags" \in DOMAIN dicts.d1 \cap DOMAIN dicts.d2
    /\ dicts.d1["tags"].list
    /\ dicts.d2["tags"].items # <<>>
    /\ merged_runs[2]["tags"].items = dicts.d1["tags"].items \o dicts.d2["tags"].items

\* ------------------------------------------------- merge_duplicates

\* The record index holds documents for ids among 1..NumRecords.
NumRecords == 3
\* A confirmed-duplicates document names at most MaxSimilar similar ids.
MaxSimilar == 2

RecordIds == 1..NumRecords

\* The documents of the record index: the empty _source, and records with
\* a question, an answer (a scalar or a list) or both.
StoredDocs ==
    {r \in Dicts :
        /\ DOMAIN r \subseteq {"question", "answer"}
        /\ \A key \in DOMAIN r : r[key].items \in {<<"a">>} \/ (r[key].list /\ r[key].items = <<"b">>)}

\* cluster_dict: the subject id and similar_ids, which CosineClusterDoc
\* declares a list of ids and _retrieve_similar_ids reads as a dict keyed
\* by id; ids holds the ids in order, dict tells which of the two it is.
ClusterDicts ==
    UNION {{[id |-> i, similar_ids |-> [dict |-> b, ids |-> o]] :
                b \in BOOLEAN,
                o \in UNION {Perms(S) : S \in {T \in SUBSET (RecordIds \ {i}) :
                                                  Cardinality(T) <= MaxSimilar}}} :
           i \in RecordIds}

\* ElasticsearchClient.get_item: the _source of the document, None when
\* the index has no document with the id.
get_item(db, item_id) ==
    IF item_id \in DOMAIN db THEN [found |-> TRUE, source |-> db[item_id]]
                              ELSE [found |-> FALSE, source |-> <<>>]

\* _retrieve_similar_ids: get_item for every key of similar_ids, in order.
_retrieve_similar_ids(db, similar_ids) ==
    [k \in 1..Len(similar_ids.ids) |-> get_item(db, similar_ids.ids[k])]

\* "if based_doc": a document that was found and is not the empty dict.
Truthy(doc) == doc.found /\ DOMAIN doc.source # {}

\* merge_duplicates(cluster_dict) against the record index db, the oracle
\* answering answers: what it returned or raised, the ids it looked up, and
\* how often _merge_dicts and the oracle were called.
merge_duplicates(db, cluster_dict, answers) ==
    IF ~cluster_dict.similar_ids.dict
    THEN \* similar_ids.keys() on a list
         [NoMerge EXCEPT !.done = TRUE, !.outcome = "raised", !.error = "AttributeError"]
    ELSE LET docs == _retrieve_similar_ids(db, cluster_dict.similar_ids)
             based_doc == get_item(db, cluster_dict.id)
             looked == [NoMerge EXCEPT !.done = TRUE,
                           !.reads = Append(cluster_dict.similar_ids.ids, cluster_dict.id)]
         IN IF Truthy(based_doc)
            THEN IF docs = <<>>
                 THEN [looked EXCEPT !.outcome = "nothing"]
                 ELSE IF ~docs[1].found
                 THEN \* "key in d2" with d2 None
                      [looked EXCEPT !.outcome = "raised", !.error = "TypeError",
                                     !.merge_calls = 1]
                 ELSE [looked EXCEPT
                          !.outcome = "record",
                          !.value = _merge_dicts(based_doc.source, docs[1].source, answers).merged,
                          !.merge_calls = 1,
                          !.oracle_calls = Cardinality(DOMAIN based_doc.source
                                              \cap DOMAIN docs[1].source \cap merging_keys)]
            ELSE [looked EXCEPT !.outcome = "nothing"]

InitMerge ==
    /\ records \in PartialFns(RecordIds, StoredDocs)
    /\ merge_doc \in ClusterDicts
    /\ merge_out = NoMerge
    /\ dicts = <<>> /\ merged_runs = <<>>
    /\ StoreIdle /\ BatchIdle /\ DiffIdle /\ ProcIdle

\* A call of merge_duplicates(cluster_dict); it writes nothing to the index.
MergeDuplicates ==
    /\ DOMAIN merge_doc # {}
    /\ ~merge_out.done
    /\ \E answers \in [merging_keys -> MergedQuestions] :
          merge_out' = merge_duplicates(records, merge_doc, answers)
    /\ UNCHANGED <<records, merge_doc, dicts, merged_runs,
                   storeVars, batchVars, diffVars, procVars>>

NextMerge == MergeDuplicates

SpecMerge == InitMerge /\ [][NextMerge]_vars

\* ---------------------------------------- claims about merge_duplicates

\* C13: when the index has no document for the subject id of cluster_dict,
\* merge_duplicates returns nothing, without a call of _merge_dicts or of
\* the oracle and without raising.
C13_MissingBaseAborts ==
    (merge_out.done /\ merge_doc.id \notin DOMAIN records) =>
        /\ merge_out.outcome = "nothing"
        /\ merge_out.merge_calls = 0
        /\ merge_out.oracle_calls = 0

\* C13 witness: the call for a cluster_dict whose subject is not in the
\* index, and whose similar_ids is the declared list, has raised.
C13_Witness ==
    /\ merge_out.done
    /\ merge_doc.id \notin DOMAIN records
    /\ ~merge_doc.similar_ids.dict
    /\ merge_out.outcome = "raised"

\* Some similar id of cluster_dict has no document in the index.
SomeSimilarMissing ==
    \E k \in 1..Len(merge_doc.similar_ids.ids) :
        merge_doc.similar_ids.ids[k] \notin DOMAIN records

\* C14: when the base record is in the index and a similar id is not,
\* merge_duplicates completes without raising.
C14_MissingSimilarNoRaise ==
    (merge_out.done /\ merge_doc.id \in DOMAIN records /\ SomeSimilarMissing) =>
        merge_out.outcome # "raised"

\* C14 witness: similar_ids is a dict, the base record is found and the
\* first similar id is not; the call raised inside _merge_dicts.
C14_Witness ==
    /\ merge_out.done
    /\ merge_doc.similar_ids.dict
    /\ Truthy(get_item(records, merge_doc.id))
    /\ merge_doc.similar_ids.ids # <<>>
    /\ merge_doc.similar_ids.ids[1] \notin DOMAIN records
    /\ merge_out.error = "TypeError"

\* ====================================================================
\* The two users of a threshold policy side by side: a behaviour is either
\* a sequence of add_to_cluster calls or a run of cluster_process.
\* ====================================================================

InitDefaults == InitStore \/ InitProcess

NextDefaults == NextStore \/ NextProcess

SpecDefaults == InitDefaults /\ [][NextDefaults]_vars

\* C15: for a key without a threshold policy, add_to_cluster goes on with
\* 0.9 as the max threshold (the candidates are the ids with a score of at
\* least 0.9: with none the store is untouched, with some the record ends
\* in a cluster with one of them), and cluster_process goes on with safe
\* 0.9 and min 0.8 (at least 0.9 accepted unasked, from 0.8 to under 0.9
\* put to the oracle, under 0.8 left out unasked).
C15_DefaultThresholds ==
    /\ (pc = "returned" /\ call.key \notin DOMAIN thresholds /\ call.similarity.found) =>
          LET scores == call.similarity.scores
              cands == {x \in DOMAIN scores : scores[x] >= 90}
          IN /\ cands = {} => store = call.before
             /\ (cands # {} /\ call.outcome # "already") =>
                   \E c \in DOMAIN store :
                       call.item_id \in store[c] /\ store[c] \cap cands # {}
    /\ (next_item >= 1 /\ similarity_doc.embedding_key \notin DOMAIN cp_threshold) =>
          \A i \in 1..(next_item - 1) :
              LET it == Items[i]
              IN /\ it.score >= 90 =>
                       it.sim_id \in Range(cp_similar_ids) /\ it.sim_id \notin Range(asked)
                 /\ (80 <= it.score /\ it.score < 90) => it.sim_id \in Range(asked)
                 /\ it.score < 80 =>
                       it.sim_id \notin Range(cp_similar_ids) /\ it.sim_id \notin Range(asked)

\* C15 witness: cluster_process without a policy has returned a document
\* after it accepted a candidate at 0.9 unasked and asked about one at 0.8.
C15_Witness ==
    /\ next_item >= 1
    /\ cleaned_doc.done
    /\ cp_threshold = <<>>
    /\ \E i, j \in 1..Len(Items) :
          /\ Items[i].score = 90
          /\ Items[i].sim_id \in Range(cleaned_doc.similar_ids)
          /\ Items[i].sim_id \notin Range(asked)
          /\ Items[j].score = 80
          /\ Items[j].sim_id \in Range(asked)

\* ------------------------------------- more claims about the store

\* The candidates of the call c: the ids whose score reaches the max
\* threshold of its key.
Candidates(c) ==
    {x \in DOMAIN c.similarity.scores : c.similarity.scores[x] >= MaxThreshold(c.key)}

\* The positions in the scan of call c of the clusters that, before the
\* call, held one of its candidates.
IntersectingPositions(c) ==
    {k \in 1..Len(c.hits) : c.before[c.hits[k]] \cap Candidates(c) # {}}

\* C17: a call that appended has added the record id to the first cluster
\* of the scan that held one of its candidates, and has changed no other
\* cluster.
C17_AppendsToFirstIntersecting ==
    (pc = "returned" /\ call.outcome = "appended") =>
        LET first == call.hits[SetMin(IntersectingPositions(call))]
        IN /\ DOMAIN store = DOMAIN call.before
           /\ store[first] = call.before[first] \cup {call.item_id}
           /\ \A c \in DOMAIN store \ {first} : store[c] = call.before[c]

\* C17 witness: a call has appended while two clusters of the scan held
\* candidates of the record.
C17_Witness ==
    /\ pc = "returned"
    /\ call.outcome = "appended"
    /\ Cardinality(IntersectingPositions(call)) >= 2

\* C19: a call for a record that is in no cluster, with candidates none of
\* which is in a cluster, creates a cluster; and a call that created has
\* added exactly one cluster, whose members are the record id and all its
\* candidates (two ids at least), under the id max + 1 of the existing
\* cluster ids, or 1 in an empty store, which is the id of no existing
\* cluster; the existing clusters are as they were.
C19_CreatesOneNewCluster ==
    /\ (/\ pc = "returned"
        /\ call.similarity.found
        /\ Candidates(call) # {}
        /\ \A c \in DOMAIN call.before :
              call.before[c] \cap (Candidates(call) \cup {call.item_id}) = {})
          => call.outcome = "created"
    /\ (pc = "returned" /\ call.outcome = "created") =>
          LET new_id == IF DOMAIN call.before = {} THEN 1
                        ELSE SetMax(DOMAIN call.before) + 1
          IN /\ new_id \notin DOMAIN call.before
             /\ DOMAIN store = DOMAIN call.before \cup {new_id}
             /\ store[new_id] = Candidates(call) \cup {call.item_id}
             /\ Cardinality(store[new_id]) >= 2
             /\ \A c \in DOMAIN call.before : store[c] = call.before[c]

\* C19 witness: a cluster was created in a store whose only cluster had
\* an id above 1, beside that cluster.
C19_Witness ==
    /\ pc = "returned"
    /\ call.outcome = "created"
    /\ Cardinality(DOMAIN call.before) = 1
    /\ SetMax(DOMAIN call.before) = 2
    /\ DOMAIN store = {2, 3}

\* ------------------------------------- more claims about cluster_items

\* A step that is one call of cluster_items, for the id id_list[pos].
ClusterItemStep == pos \in 1..Len(id_list) /\ pos' = pos + 1

\* The clusters of the current list, by position, with a member whose
\* pairwise score with id_list[pos] is on or above the run's threshold.
MatchingClusters ==
    {c \in 1..Len(clusters) :
        \E k \in 1..Len(clusters[c]) :
            Linked(id_list[pos], clusters[c][k], threshold_list[ti])}

\* What the claim expects of the call: the id at the end of the first
\* matching cluster, or a new singleton at the end of the list.
FirstMatchOrSingleton ==
    IF MatchingClusters # {}
    THEN clusters' = [clusters EXCEPT ![SetMin(MatchingClusters)] = Append(@, id_list[pos])]
    ELSE clusters' = Append(clusters, <<id_list[pos]>>)

\* C18 as stated: every call of cluster_items appends the id to the first
\* matching cluster or, without one, appends a new singleton cluster.
C18_Original ==
    [][ ClusterItemStep => FirstMatchOrSingleton ]_vars

\* C18: a call of cluster_items for an id with a similarity result appends
\* the id to the first cluster, in creation order, with a member whose
\* pairwise score with it is on or above the threshold, or without such a
\* cluster appends a new singleton at the end; all other clusters keep
\* their members and their order. A call for an id without a similarity
\* result leaves the cluster list as it is.
C18_FirstMatchWhenScored ==
    [][ ClusterItemStep =>
            IF provider[id_list[pos]].found THEN FirstMatchOrSingleton
                                            ELSE clusters' = clusters ]_vars

\* C18 witness: the id was appended to the first of two clusters although
\* the second has a matching member as well.
C18_Witness ==
    /\ pos = Len(id_list) + 1
    /\ Len(clusters) = 2
    /\ clusters[1] = <<1, 3>>
    /\ clusters[2] = <<2>>
    /\ Linked(3, 2, threshold_list[ti])

\* ====================================================================
\* Two add_to_cluster calls at once: each call reads the persisted
\* clusters (get_all_documents) and later writes (update or index); the
\* steps of the two calls interleave. Here call and pc hold one entry per
\* call.
\* ====================================================================

Procs == {1, 2}

\* Both calls use the bge key.
RaceKey == "question.bge_search_vector"

NoPlan == [op |-> "none", doc_id |-> 0, ids |-> {}]

\* add_to_cluster up to its write: what the call will write, decided on
\* the documents docs it read in the order hits.
Plan(item_id, key, similarity, hits, docs) ==
    IF ~similarity.found THEN NoPlan
    ELSE LET similar_ids == SimilarIds(similarity.scores, MaxThreshold(key))
             scan == ScanClusters(hits, docs, item_id, similar_ids, NoScan)
             all_ids == similar_ids \cup {item_id}
         IN IF scan.returned THEN NoPlan
            ELSE IF scan.matched
            THEN [op |-> "update", doc_id |-> scan.existing_cluster_id, ids |-> {item_id}]
            ELSE IF similar_ids # {} /\ Cardinality(all_ids) > 1
            THEN [op |-> "index", doc_id |-> NewClusterId(scan.existing_ids), ids |-> all_ids]
            ELSE NoPlan

\* The write of add_to_cluster against the documents as they are now: the
\* scripted update of the target, or the index call under the new id.
Write(docs, plan, item_id) ==
    IF plan.op = "update" THEN Update(docs, plan.doc_id, item_id)
    ELSE IF plan.op = "index" THEN Index(docs, plan.doc_id, plan.ids)
    ELSE docs

\* The two calls: different records, each with the backend's answer.
RaceCalls ==
    {c \in [Procs -> [item_id : Ids, key : {RaceKey},
                      similarity : UNION {Similarities(i) : i \in Ids},
                      hits : {<<>>}, before : {<<>>}, plan : {NoPlan}, turn : {0}]] :
        /\ c[1].item_id < c[2].item_id
        /\ \A p \in Procs : c[p].similarity \in Similarities(c[p].item_id)}

InitRace ==
    /\ store \in InitStores
    /\ call \in RaceCalls
    /\ pc = [p \in Procs |-> "called"]
    /\ BatchIdle /\ DiffIdle /\ ProcIdle /\ MergeIdle

\* Call p reads all clusters and decides what to write.
RaceRead(p) ==
    /\ pc[p] = "called"
    /\ \E hits \in Perms(DOMAIN store) :
          call' = [call EXCEPT ![p].hits = hits, ![p].before = store,
                               ![p].plan = Plan(call[p].item_id, call[p].key,
                                                call[p].similarity, hits, store)]
    /\ pc' = [pc EXCEPT ![p] = "read"]
    /\ UNCHANGED <<store, batchVars, diffVars, procVars, mergeVars>>

\* Call p writes what it decided, and returns.
RaceWrite(p) ==
    /\ pc[p] = "read"
    /\ store' = Write(store, call[p].plan, call[p].item_id)
    /\ call' = [call EXCEPT ![p].turn = 1 + Cardinality({q \in Procs : pc[q] = "done"})]
    /\ pc' = [pc EXCEPT ![p] = "done"]
    /\ UNCHANGED <<batchVars, diffVars, procVars, mergeVars>>

NextRace == \E p \in Procs : RaceRead(p) \/ RaceWrite(p)

SpecRace == InitRace /\ [][NextRace]_vars

\* ------------------------------------------ claims about two calls

\* Both calls have returned, both read the same clusters (neither read
\* after the other's write) and both decided to create a cluster.
BothCreatedFromSameRead ==
    /\ \A p \in Procs : pc[p] = "done" /\ call[p].plan.op = "index"
    /\ call[1].before = call[2].before

\* C20: when both calls read the persisted clusters before either wrote
\* and both create a cluster, both computed the same new cluster id, and
\* after the two index calls the store holds under that id the cluster of
\* the later writer only: one cluster more than before, not two.
C20_SameNewIdLaterWriteWins ==
    BothCreatedFromSameRead =>
        LET later == CHOOSE p \in Procs : call[p].turn = 2
            new_id == call[later].plan.doc_id
        IN /\ call[1].plan.doc_id = call[2].plan.doc_id
           /\ store[new_id] = call[later].plan.ids
           /\ DOMAIN store = DOMAIN call[later].before \cup {new_id}
           /\ \A c \in DOMAIN call[later].before : store[c] = call[later].before[c]

\* C20 witness: both calls created under the same id and the record of
\* the earlier writer is in no cluster of the store.
C20_Witness ==
    /\ BothCreatedFromSameRead
    /\ call[1].plan.doc_id = call[2].plan.doc_id
    /\ \E p \in Procs :
          /\ call[p].turn = 1
          /\ \A c \in DOMAIN store : call[p].item_id \notin store[c]

\* Both calls have returned and both decided, on clusters read before
\* either wrote, to append to the same existing cluster.
BothAppendedToSameTarget ==
    /\ \A p \in Procs : pc[p] = "done" /\ call[p].plan.op = "update"
    /\ call[1].plan.doc_id = call[2].plan.doc_id
    /\ call[1].before = call[2].before

C22_AtMostOneClusterInterleaved == AtMostOneCluster(store)

\* C22 witness: one call appended its record to an existing cluster, the
\* other created a cluster with that record as a candidate.
C22_Witness ==
    /\ \A p \in Procs : pc[p] = "done"
    /\ \E p, q \in Procs :
          /\ call[p].plan.op = "update"
          /\ call[q].plan.op = "index"
          /\ call[p].item_id \in call[q].plan.ids
          /\ call[p].item_id \in store[call[p].plan.doc_id]
          /\ call[p].item_id \in store[call[q].plan.doc_id]
          /\ call[p].plan.doc_id # call[q].plan.doc_id

\* ------------------------------------- more claims about the diff

\* A member record as the set of its key/value pairs, whatever their order.
RecordOf(member) == {member[i] : i \in 1..Len(member)}

\* How often the record r is among the members of the cluster.
Copies(cluster, r) == Cardinality({i \in 1..Len(cluster) : RecordOf(cluster[i]) = r})

\* The two clusters contain the same member records, in whatever order.
SameMembers(c1, c2) ==
    /\ Len(c1) = Len(c2)
    /\ \A i \in 1..Len(c1) : Copies(c1, RecordOf(c1[i])) = Copies(c2, RecordOf(c1[i]))

\* The two clusters contain the same member records in the same order.
SameMembersInOrder(c1, c2) ==
    /\ Len(c1) = Len(c2)
    /\ \A i \in 1..Len(c1) : RecordOf(c1[i]) = RecordOf(c2[i])

\* C23 as stated: a cluster with the same member records as a cluster of
\* another snapshot, in whatever order, is not reported as unique.
C23_Original ==
    diff_output.done =>
        \A f \in DOMAIN data : \A key \in DOMAIN data[f] :
            (\E g \in DOMAIN data \ {f} : \E k2 \in DOMAIN data[g] :
                  SameMembers(data[f][key], data[g][k2]))
                => ~InDiffOutput(f, key)

\* C23: compare_clusters takes two clusters for equal exactly when they
\* hold equal member records in the same list order, whatever the key
\* order inside the records: a cluster is reported as unique if and only
\* if no cluster at another place (file and label) is equal to it in this
\* sense, so a copy with the members in another order does not count.
C23_EqualUpToKeyOrderOnly ==
    diff_output.done =>
        \A f \in DOMAIN data : \A key \in DOMAIN data[f] :
            InDiffOutput(f, key) <=>
                ~\E g \in DOMAIN data : \E k2 \in DOMAIN data[g] :
                    /\ <<g, k2>> # <<f, key>>
                    /\ SameMembersInOrder(data[f][key], data[g][k2])

\* C23 witness: two snapshots hold the same two member records in
\* opposite orders, and both clusters are reported as unique; a third
\* cluster that differs from a copy by its key order only is not.
C23_Witness ==
    /\ diff_output.done
    /\ DOMAIN data[1] = {1, 2} /\ DOMAIN data[2] = {1, 2}
    /\ data[1][1] = <<MemberA, MemberB>>
    /\ data[2][1] = <<MemberB, MemberAKeysSwapped>>
    /\ InDiffOutput(1, 1) /\ InDiffOutput(2, 1)
    /\ data[1][2] = <<MemberA>>
    /\ data[2][2] = <<MemberAKeysSwapped>>
    /\ ~InDiffOutput(1, 2) /\ ~InDiffOutput(2, 2)

\* ----------------------------- claims about the pairwise score

\* The current id x has a score for the member m in its own result, and
\* that score reaches t.
DirectMatch(x, m, t) ==
    m \in DOMAIN provider[x].scores /\ provider[x].scores[m] >= t

\* x has no score for m in its own result, m's result has one for x, and
\* that score reaches t.
ReverseMatch(x, m, t) ==
    /\ m \notin DOMAIN provider[x].scores
    /\ provider[m].found
    /\ x \in DOMAIN provider[m].scores
    /\ provider[m].scores[x] >= t

C25_ClusterCountMonotone ==
    \A a, b \in 1..Len(outputs) :
        threshold_list[a] < threshold_list[b] =>
            Cardinality(DOMAIN outputs[a]) <= Cardinality(DOMAIN outputs[b])

\* C25 witness: the run at the higher threshold wrote more clusters than
\* the run at the lower threshold, which came after it.
C25_Witness ==
    /\ Len(outputs) = 2
    /\ threshold_list[2] < threshold_list[1]
    /\ Cardinality(DOMAIN outputs[2]) = 1
    /\ Cardinality(DOMAIN outputs[1]) = 3

\* ------------------------------ more claims about merge_duplicates

\* The base record and every similar record of cluster_dict are in the
\* index, and there is a similar record.
BaseAndSimilarsFound ==
    /\ merge_doc.id \in DOMAIN records
    /\ merge_doc.similar_ids.ids # <<>>
    /\ \A k \in 1..Len(merge_doc.similar_ids.ids) :
          merge_doc.similar_ids.ids[k] \in DOMAIN records

\* C26: with the base record and k >= 1 similar records found,
\* merge_duplicates returns _merge_dicts(base, first similar record),
\* whatever the later similar records are, after one call of _merge_dicts.
C26_ReturnsFirstMergeOnly ==
    (merge_out.done /\ BaseAndSimilarsFound) =>
        /\ merge_out.outcome = "record"
        /\ merge_out.merge_calls = 1
        /\ \E answers \in [merging_keys -> MergedQuestions] :
              merge_out.value =
                  _merge_dicts(records[merge_doc.id],
                               records[merge_doc.similar_ids.ids[1]], answers).merged

\* C26 witness: the call for a cluster_dict with the declared list of two
\* similar ids, all records found and the base not empty, has raised.
C26_Witness ==
    /\ merge_out.done
    /\ BaseAndSimilarsFound
    /\ Len(merge_doc.similar_ids.ids) = 2
    /\ DOMAIN records[merge_doc.id] # {}
    /\ ~merge_doc.similar_ids.dict
    /\ merge_out.error = "AttributeError"

\* C28: with the base record found and no similar id, merge_duplicates
\* returns nothing.
C28_EmptySimilarReturnsNothing ==
    (merge_out.done /\ merge_doc.id \in DOMAIN records
                    /\ merge_doc.similar_ids.ids = <<>>) =>
        merge_out.outcome = "nothing"

\* C28 witness: the call for a cluster_dict whose similar_ids is the
\* empty list, the base record found, has raised.
C28_Witness ==
    /\ merge_out.done
    /\ merge_doc.id \in DOMAIN records
    /\ merge_doc.similar_ids.ids = <<>>
    /\ ~merge_doc.similar_ids.dict
    /\ merge_out.outcome = "raised"

\* ------------------------------ growth of the persisted clusters

\* The clusters that the step creates or changes.
ChangedClusters ==
    {c \in DOMAIN store' : c \notin DOMAIN store \/ store'[c] # store[c]}

\* C27: in every step of a sequence of add_to_cluster calls executed one
\* at a time, no cluster is deleted, every cluster keeps its members, and
\* at most one cluster is created or changed; so a cluster's member set
\* in a later state contains its member set of every earlier state.
C27_ClustersOnlyGrow ==
    [][ /\ DOMAIN store \subseteq DOMAIN store'
        /\ \A c \in DOMAIN store : store[c] \subseteq store'[c]
        /\ Cardinality(ChangedClusters) <= 1 ]_vars

\* C27 witness: a call has appended its record to one of two clusters;
\* that cluster has its earlier members and the record, the other cluster
\* is as it was.
C27_Witness ==
    /\ pc = "returned"
    /\ call.outcome = "appended"
    /\ DOMAIN store = DOMAIN call.before
    /\ Cardinality(DOMAIN store) = 2
    /\ \E c, e \in DOMAIN store :
          /\ c # e
          /\ call.item_id \notin call.before[c]
          /\ store[c] = call.before[c] \cup {call.item_id}
          /\ store[e] = call.before[e]

=============================================================================
